---- MODULE Spec2Model ----
(***************************************************************************)
(* Model of utils/dates/date-service.js: the DateService function library  *)
(* together with the part of the host Date object the library relies on.   *)
(*                                                                         *)
(* A Date is a time value (hours since 1970-01-01T00:00Z, day granularity  *)
(* plus the hour of the day) or NaN.  Local getters and the component      *)
(* constructor work in the host time zone (offset tz, in hours east of     *)
(* UTC); Date.parse of a date-only ISO string works in UTC.                *)
(*                                                                         *)
(* A string is modelled by the list of its '-'-separated segments, each a  *)
(* sequence of characters: 0..9 are the decimal digits and Letter stands   *)
(* for any letter that is not part of a date keyword.                      *)
(***************************************************************************)
EXTENDS Integers, Sequences, FiniteSets, TLC

VARIABLES tz, clock, inp, op, ret

vars == <<tz, clock, inp, op, ret>>

(***************************************************************************)
(* Bounds of the model.                                                    *)
(***************************************************************************)
YearWindow == 1
MaxDelta == 2
MaxTzHours == 5

PivotYears == {1900, 2000, 2024, 2100}
Years == UNION {(p - YearWindow)..(p + YearWindow) : p \in PivotYears}
\* years given as arguments: also the first years of the era
LowYears == 1..(3 + YearWindow)
ArgYears == Years \cup LowYears
CmpYears == (2024 - YearWindow)..(2024 + YearWindow)
Deltas == (0 - MaxDelta)..MaxDelta
TzOffsets == {0 - MaxTzHours, 0, MaxTzHours}
ClockHours == {0, 23}
ArgDays == 0..32
StartDays == {1, 2, 15} \cup (27..31)
ArgMonths == 0..13

Formats == {"MM-DD-YYYY", "MM-DD-YY", "DD-MM-YYYY", "DD-MM-YY", "YYYY-MM-DD"}

(***************************************************************************)
(* The calendar as the specification states it (reference definitions     *)
(* used by the properties, independent of the Date arithmetic below).      *)
(***************************************************************************)
RefLeap(y) == (y % 4 = 0 /\ y % 100 # 0) \/ y % 400 = 0

RefDaysInMonth(y, m) ==
    IF m \in {1, 3, 5, 7, 8, 10, 12} THEN 31
    ELSE IF m \in {4, 6, 9, 11} THEN 30
    ELSE IF RefLeap(y) THEN 29 ELSE 28

RefValid(d, m, y) ==
    /\ m \in 1..12
    /\ d >= 1
    /\ d <= RefDaysInMonth(y, m)

RefNext(c) ==
    IF c.day < RefDaysInMonth(c.year, c.month)
    THEN [year |-> c.year, month |-> c.month, day |-> c.day + 1]
    ELSE IF c.month < 12
    THEN [year |-> c.year, month |-> c.month + 1, day |-> 1]
    ELSE [year |-> c.year + 1, month |-> 1, day |-> 1]

RefPrev(c) ==
    IF c.day > 1
    THEN [year |-> c.year, month |-> c.month, day |-> c.day - 1]
    ELSE IF c.month > 1
    THEN [year |-> c.year, month |-> c.month - 1,
          day |-> RefDaysInMonth(c.year, c.month - 1)]
    ELSE [year |-> c.year - 1, month |-> 12, day |-> 31]

RECURSIVE RefAdd(_, _)
RefAdd(c, n) ==
    IF n = 0 THEN c
    ELSE IF n > 0 THEN RefAdd(RefNext(c), n - 1)
    ELSE RefAdd(RefPrev(c), n + 1)

RefBefore(a, b) ==
    \/ a.year < b.year
    \/ a.year = b.year /\ a.month < b.month
    \/ a.year = b.year /\ a.month = b.month /\ a.day < b.day

\* zero-padded decimal renderings, for years 1000..9999
RefTwo(v) == <<(v \div 10) % 10, v % 10>>
RefFour(v) == <<(v \div 1000) % 10, (v \div 100) % 10, (v \div 10) % 10, v % 10>>

RefRender(c, format) ==
    CASE format = "MM-DD-YYYY" -> <<RefTwo(c.month), RefTwo(c.day), RefFour(c.year)>>
      [] format = "MM-DD-YY"   -> <<RefTwo(c.month), RefTwo(c.day), RefTwo(c.year)>>
      [] format = "DD-MM-YYYY" -> <<RefTwo(c.day), RefTwo(c.month), RefFour(c.year)>>
      [] format = "DD-MM-YY"   -> <<RefTwo(c.day), RefTwo(c.month), RefTwo(c.year)>>
      [] OTHER                 -> <<RefFour(c.year), RefTwo(c.month), RefTwo(c.day)>>

YMD(y, m, d) == [year |-> y, month |-> m, day |-> d]

ValidDates ==
    {c \in [year : Years, month : 1..12, day : 1..31] :
        c.day <= RefDaysInMonth(c.year, c.month)}

(***************************************************************************)
(* The host Date object: time values and day arithmetic (ECMAScript        *)
(* "Day Number and Time within Day", "Year Number", "Month Number",        *)
(* "Date Number", MakeDay, MakeDate, LocalTime, UTC).                      *)
(***************************************************************************)
HoursPerDay == 24

NaNDate == [nan |-> TRUE, t |-> 0]
DateOf(t) == [nan |-> FALSE, t |-> t]

Day(t) == t \div HoursPerDay
TimeWithinDay(t) == t % HoursPerDay

DaysInYear(y) ==
    IF y % 4 # 0 THEN 365
    ELSE IF y % 100 # 0 THEN 366
    ELSE IF y % 400 # 0 THEN 365
    ELSE 366

DayFromYear(y) ==
    365 * (y - 1970) + ((y - 1969) \div 4) - ((y - 1901) \div 100)
        + ((y - 1601) \div 400)

YearFromDay(dn) ==
    LET est == 1970 + (dn \div 365)
    IN  CHOOSE y \in (est - 2)..(est + 1) :
            DayFromYear(y) <= dn /\ dn < DayFromYear(y + 1)

InLeapYear(y) == IF DaysInYear(y) = 366 THEN 1 ELSE 0

\* first day-within-year of month index m (0 = January)
MonthStart(m, leap) ==
    CASE m = 0 -> 0
      [] m = 1 -> 31
      [] m = 2 -> 59 + leap
      [] m = 3 -> 90 + leap
      [] m = 4 -> 120 + leap
      [] m = 5 -> 151 + leap
      [] m = 6 -> 181 + leap
      [] m = 7 -> 212 + leap
      [] m = 8 -> 243 + leap
      [] m = 9 -> 273 + leap
      [] m = 10 -> 304 + leap
      [] m = 11 -> 334 + leap
      [] OTHER -> 365 + leap

DayWithinYear(dn) == dn - DayFromYear(YearFromDay(dn))

MonthFromDay(dn) ==
    LET leap == InLeapYear(YearFromDay(dn))
        dwy  == DayWithinYear(dn)
    IN  CHOOSE m \in 0..11 :
            MonthStart(m, leap) <= dwy /\ dwy < MonthStart(m + 1, leap)

DateFromDay(dn) ==
    DayWithinYear(dn)
        - MonthStart(MonthFromDay(dn), InLeapYear(YearFromDay(dn))) + 1

MakeDay(year, month, date) ==
    LET ym == year + (month \div 12)
        mn == month % 12
    IN  DayFromYear(ym) + MonthStart(mn, InLeapYear(ym)) + date - 1

MakeDate(dn, time) == dn * HoursPerDay + time

LocalTime(t) == t + tz
UTC(t) == t - tz

\* new Date(year, monthIndex, day): local midnight; years 0..99 mean 19xx
NewDateYMD(year, monthIndex, day) ==
    LET yr == IF 0 <= year /\ year <= 99 THEN 1900 + year ELSE year
    IN  DateOf(UTC(MakeDate(MakeDay(yr, monthIndex, day), 0)))

getFullYear(D) == YearFromDay(Day(LocalTime(D.t)))
getMonth(D) == MonthFromDay(Day(LocalTime(D.t)))
getDate(D) == DateFromDay(Day(LocalTime(D.t)))

\* date.setDate(dt)
setDate(D, dt) ==
    LET lt == LocalTime(D.t)
    IN  DateOf(UTC(MakeDate(MakeDay(YearFromDay(Day(lt)), MonthFromDay(Day(lt)), dt),
                            TimeWithinDay(lt))))

\* the local calendar date a Date object shows through its getters
LocalYMD(D) == [year |-> getFullYear(D), month |-> getMonth(D) + 1, day |-> getDate(D)]

(***************************************************************************)
(* Strings.                                                                *)
(***************************************************************************)
Letter == 10

RECURSIVE ToStr(_)
ToStr(n) == IF n < 10 THEN <<n>> ELSE ToStr(n \div 10) \o <<n % 10>>

padStart2(s) == IF Len(s) < 2 THEN <<0>> \o s ELSE s

sliceLast2(s) == IF Len(s) <= 2 THEN s ELSE SubSeq(s, Len(s) - 1, Len(s))

\* the string "undefined" (a missing part interpolated into a string)
UndefinedStr == <<Letter>>

(***************************************************************************)
(* Results of a call.                                                      *)
(***************************************************************************)
NoText == <<>>
NoInput == [day |-> 0, month |-> 0, year |-> 0, n |-> 0, format |-> "",
            flag |-> FALSE, text |-> NoText, text2 |-> NoText]

RetNone == [kind |-> "none", err |-> "", D |-> NaNDate, D2 |-> NaNDate,
            text |-> NoText, num |-> 0, flag |-> FALSE]
RetError(e) == [RetNone EXCEPT !.kind = "error", !.err = e]
RetString(D, s) == [RetNone EXCEPT !.kind = "string", !.D = D, !.text = s]
RetDate(D) == [RetNone EXCEPT !.kind = "date", !.D = D]
RetNumber(k) == [RetNone EXCEPT !.kind = "number", !.num = k]
RetBool(b) == [RetNone EXCEPT !.kind = "boolean", !.flag = b]
RetCompare(a, b) == [RetNone EXCEPT !.kind = "boolean", !.D = a, !.D2 = b,
                                    !.flag = (a.t < b.t)]

(***************************************************************************)
(* formatDate                                                              *)
(***************************************************************************)
formatDate(D, format) ==
    LET dd   == padStart2(ToStr(getDate(D)))
        mm   == padStart2(ToStr(getMonth(D) + 1))
        yyyy == ToStr(getFullYear(D))
        yy   == sliceLast2(yyyy)
    IN  CASE format = "MM-DD-YYYY" -> RetString(D, <<mm, dd, yyyy>>)
          [] format = "MM-DD-YY"   -> RetString(D, <<mm, dd, yy>>)
          [] format = "DD-MM-YYYY" -> RetString(D, <<dd, mm, yyyy>>)
          [] format = "DD-MM-YY"   -> RetString(D, <<dd, mm, yy>>)
          [] format = "YYYY-MM-DD" -> RetString(D, <<yyyy, mm, dd>>)
          [] OTHER -> RetError("UnsupportedFormat")

(***************************************************************************)
(* DateService: calendar helpers                                           *)
(***************************************************************************)
\* variant: the month number taken as a month index
getDaysInMonthPrev(year, month) == getDate(NewDateYMD(year, month - 1, 0))

getDaysInMonth(year, month) == getDate(NewDateYMD(year, month, 0))

isLeapYear(year) == (year % 4 = 0 /\ year % 100 # 0) \/ (year % 400 = 0)

\* variant: the 1-based month passed on as a month index
addDaysMonthIndex(day, month, year, daysToAdd, format) ==
    LET date == NewDateYMD(year, month, day)
    IN  formatDate(setDate(date, getDate(date) + daysToAdd), format)

addDays(day, month, year, daysToAdd, format) ==
    LET date == NewDateYMD(year, month - 1, day)
    IN  formatDate(setDate(date, getDate(date) + daysToAdd), format)

getAnyDate(day, month, year, format) ==
    formatDate(NewDateYMD(year, month - 1, day), format)

FixedClock == [year |-> 2024, month |-> 1, day |-> 1, hour |-> 0]

InitCal ==
    /\ tz \in TzOffsets
    /\ clock = FixedClock
    /\ inp = NoInput
    /\ op = "idle"
    /\ ret = RetNone

GetDaysInMonth ==
    /\ op = "idle"
    /\ \E year \in ArgYears, month \in ArgMonths :
        /\ op' = "getDaysInMonth"
        /\ inp' = [NoInput EXCEPT !.year = year, !.month = month]
        /\ ret' = RetNumber(getDaysInMonth(year, month))
        /\ UNCHANGED <<tz, clock>>

IsLeapYear ==
    /\ op = "idle"
    /\ \E year \in ArgYears :
        /\ op' = "isLeapYear"
        /\ inp' = [NoInput EXCEPT !.year = year]
        /\ ret' = RetBool(isLeapYear(year))
        /\ UNCHANGED <<tz, clock>>

AddDays ==
    /\ op = "idle"
    /\ \E day \in StartDays, month \in 1..12, year \in ArgYears, n \in Deltas, format \in Formats :
        /\ op' = "addDays"
        /\ inp' = [NoInput EXCEPT !.day = day, !.month = month, !.year = year,
                                  !.n = n, !.format = format]
        /\ ret' = addDays(day, month, year, n, format)
        /\ UNCHANGED <<tz, clock>>

GetAnyDate ==
    /\ op = "idle"
    /\ \E day \in ArgDays, month \in ArgMonths, year \in ArgYears, format \in Formats :
        /\ op' = "getAnyDate"
        /\ inp' = [NoInput EXCEPT !.day = day, !.month = month, !.year = year,
                                  !.format = format]
        /\ ret' = getAnyDate(day, month, year, format)
        /\ UNCHANGED <<tz, clock>>

\* the caller consumes the result; the library keeps no state between calls
Return ==
    /\ op # "idle"
    /\ op' = "idle"
    /\ inp' = NoInput
    /\ ret' = RetNone
    /\ UNCHANGED <<tz, clock>>

NextCal == GetDaysInMonth \/ IsLeapYear \/ AddDays \/ GetAnyDate \/ Return

SpecCal == InitCal /\ [][NextCal]_vars

(***************************************************************************)
(* DateService: functions of the current date                              *)
(***************************************************************************)
\* new Date(): the instant the host clock shows
getCurrentDate ==
    DateOf(UTC(MakeDate(MakeDay(clock.year, clock.month - 1, clock.day), clock.hour)))

\* variant: the financial year taken to start in May
getFinancialYearMay(fullYear) ==
    LET currentDate == getCurrentDate
        year  == getFullYear(currentDate)
        month == getMonth(currentDate) + 1
        startYear == IF month > 4 THEN year ELSE year - 1
        endYear   == IF month > 4 THEN year + 1 ELSE year
    IN  IF fullYear
        THEN RetString(currentDate, <<ToStr(startYear), sliceLast2(ToStr(endYear))>>)
        ELSE RetString(currentDate,
                       <<sliceLast2(ToStr(startYear)), sliceLast2(ToStr(endYear))>>)

getFinancialYear(fullYear) ==
    LET currentDate == getCurrentDate
        year  == getFullYear(currentDate)
        month == getMonth(currentDate) + 1
        startYear == IF month >= 4 THEN year ELSE year - 1
        endYear   == IF month >= 4 THEN year + 1 ELSE year
    IN  IF fullYear
        THEN RetString(currentDate, <<ToStr(startYear), sliceLast2(ToStr(endYear))>>)
        ELSE RetString(currentDate,
                       <<sliceLast2(ToStr(startYear)), sliceLast2(ToStr(endYear))>>)

getCurrentQuarter == ((getMonth(getCurrentDate) + 1 - 1) \div 3) + 1

getQuarterStartDate(format) ==
    LET quarter == getCurrentQuarter
        year == getFullYear(getCurrentDate)
        startMonth == (quarter - 1) * 3
    IN  formatDate(NewDateYMD(year, startMonth, 1), format)

\* variant: the last day of the quarter's second month
getQuarterEndDateShort(format) ==
    LET quarter == getCurrentQuarter
        year == getFullYear(getCurrentDate)
        endMonth == quarter * 3 - 1
    IN  formatDate(NewDateYMD(year, endMonth, 0), format)

getQuarterEndDate(format) ==
    LET quarter == getCurrentQuarter
        year == getFullYear(getCurrentDate)
        endMonth == quarter * 3
    IN  formatDate(NewDateYMD(year, endMonth, 0), format)

Clocks ==
    {[year |-> c.year, month |-> c.month, day |-> c.day, hour |-> h] :
        c \in ValidDates, h \in ClockHours}

InitClock ==
    /\ tz \in TzOffsets
    /\ clock \in Clocks
    /\ inp = NoInput
    /\ op = "idle"
    /\ ret = RetNone

GetFinancialYear ==
    /\ op = "idle"
    /\ \E fullYear \in BOOLEAN :
        /\ op' = "getFinancialYear"
        /\ inp' = [NoInput EXCEPT !.flag = fullYear]
        /\ ret' = getFinancialYear(fullYear)
        /\ UNCHANGED <<tz, clock>>

GetCurrentQuarter ==
    /\ op = "idle"
    /\ op' = "getCurrentQuarter"
    /\ inp' = NoInput
    /\ ret' = RetNumber(getCurrentQuarter)
    /\ UNCHANGED <<tz, clock>>

GetQuarterStartDate ==
    /\ op = "idle"
    /\ \E format \in Formats :
        /\ op' = "getQuarterStartDate"
        /\ inp' = [NoInput EXCEPT !.format = format]
        /\ ret' = getQuarterStartDate(format)
        /\ UNCHANGED <<tz, clock>>

GetQuarterEndDate ==
    /\ op = "idle"
    /\ \E format \in Formats :
        /\ op' = "getQuarterEndDate"
        /\ inp' = [NoInput EXCEPT !.format = format]
        /\ ret' = getQuarterEndDate(format)
        /\ UNCHANGED <<tz, clock>>

NextClock ==
    \/ GetFinancialYear
    \/ GetCurrentQuarter
    \/ GetQuarterStartDate
    \/ GetQuarterEndDate
    \/ Return

SpecClock == InitClock /\ [][NextClock]_vars

(***************************************************************************)
(* Date.parse on the string `${year}-${month}-${day}`.                     *)
(*                                                                         *)
(* The string is first tried as an ISO date (YYYY-MM-DD, month 1..12, day  *)
(* 1..31), which is read as UTC midnight with an overlong day carried into *)
(* the next month; anything else goes to the engine's legacy parser, which *)
(* collects up to three numbers, reads them as year-month-day when the     *)
(* first is not a day number and as month-day-year otherwise, and gives a  *)
(* local midnight.  What a string that is not a valid ISO date yields is   *)
(* left to the engine: besides the result above it may be NaN.             *)
(***************************************************************************)
IsDigit(c) == c < Letter
IsMonth(x) == 1 <= x /\ x <= 12
IsDay(x) == 1 <= x /\ x <= 31

RECURSIVE NumVal(_)
NumVal(s) ==
    IF Len(s) = 0 THEN 0 ELSE 10 * NumVal(SubSeq(s, 1, Len(s) - 1)) + s[Len(s)]

RECURSIVE RunEnd(_, _)
RunEnd(s, i) ==
    IF i < Len(s) /\ IsDigit(s[i + 1]) = IsDigit(s[i]) THEN RunEnd(s, i + 1) ELSE i

Tok(k, v, w) == [k |-> k, v |-> v, w |-> w]

RECURSIVE SegTokens(_, _)
SegTokens(s, i) ==
    IF i > Len(s) THEN <<>>
    ELSE LET j == RunEnd(s, i)
         IN  <<IF IsDigit(s[i]) THEN Tok("num", NumVal(SubSeq(s, i, j)), j - i + 1)
                                ELSE Tok("word", 0, 0)>>
                 \o SegTokens(s, j + 1)

RECURSIVE Tokens(_)
Tokens(str) ==
    IF Len(str) = 0 THEN <<>>
    ELSE IF Len(str) = 1 THEN SegTokens(str[1], 1)
    ELSE SegTokens(str[1], 1) \o <<Tok("dash", 0, 0)>> \o Tokens(Tail(str))

TokAt(toks, i) == IF i <= Len(toks) THEN toks[i] ELSE Tok("end", 0, 0)

IsFixedNumber(tk, w) == tk.k = "num" /\ tk.w = w

ScanFail == [ok |-> FALSE, comps |-> <<>>]

\* the legacy scan from token i, with the numbers read so far
RECURSIVE LegacyScan(_, _, _, _)
LegacyScan(toks, i, comps, hasReadNumber) ==
    LET tk == TokAt(toks, i)
    IN  CASE tk.k = "end" -> [ok |-> TRUE, comps |-> comps]
          [] tk.k = "num" ->
                IF Len(comps) >= 3 THEN ScanFail
                ELSE LegacyScan(toks,
                                IF TokAt(toks, i + 1).k = "dash" THEN i + 2 ELSE i + 1,
                                Append(comps, tk.v), TRUE)
          [] tk.k = "word" ->
                IF hasReadNumber \/ TokAt(toks, i + 1).k = "num" THEN ScanFail
                ELSE LegacyScan(toks, i + 1, comps, hasReadNumber)
          [] OTHER ->
                IF hasReadNumber THEN ScanFail
                ELSE LegacyScan(toks, i + 1, comps, hasReadNumber)

\* the day composer: numbers read -> time value
DayComposerWrite(comps, isIso) ==
    IF Len(comps) < 1 THEN NaNDate
    ELSE LET c(k) == IF k <= Len(comps) THEN comps[k] ELSE 1
             ymd   == isIso \/ ~IsDay(c(1))
             year0 == IF ymd THEN c(1) ELSE c(3)
             month == IF ymd THEN c(2) ELSE c(1)
             day   == IF ymd THEN c(3) ELSE c(2)
             year  == IF isIso THEN year0
                      ELSE IF 0 <= year0 /\ year0 <= 49 THEN year0 + 2000
                      ELSE IF 50 <= year0 /\ year0 <= 99 THEN year0 + 1900
                      ELSE year0
         IN  IF ~IsMonth(month) \/ ~IsDay(day) THEN NaNDate
             ELSE IF isIso THEN DateOf(MakeDate(MakeDay(year, month - 1, day), 0))
             ELSE DateOf(UTC(MakeDate(MakeDay(year, month - 1, day), 0)))

Legacy(toks, i, comps) ==
    LET r == LegacyScan(toks, i, comps, Len(comps) > 0)
    IN  IF r.ok THEN DayComposerWrite(r.comps, FALSE) ELSE NaNDate

\* the ISO attempt, falling back to the legacy scan at the first mismatch
DateParseEngine(str) ==
    LET toks == Tokens(str)
        y == TokAt(toks, 1)
        m == TokAt(toks, 3)
        d == TokAt(toks, 5)
    IN  IF ~IsFixedNumber(y, 4) THEN Legacy(toks, 1, <<>>)
        ELSE IF TokAt(toks, 2).k # "dash"
        THEN IF TokAt(toks, 2).k = "end" THEN DayComposerWrite(<<y.v>>, TRUE)
             ELSE Legacy(toks, 2, <<y.v>>)
        ELSE IF ~(IsFixedNumber(m, 2) /\ IsMonth(m.v)) THEN Legacy(toks, 3, <<y.v>>)
        ELSE IF TokAt(toks, 4).k # "dash"
        THEN IF TokAt(toks, 4).k = "end" THEN DayComposerWrite(<<y.v, m.v>>, TRUE)
             ELSE Legacy(toks, 4, <<y.v, m.v>>)
        ELSE IF ~(IsFixedNumber(d, 2) /\ IsDay(d.v)) THEN Legacy(toks, 5, <<y.v, m.v>>)
        ELSE IF TokAt(toks, 6).k = "end" THEN DayComposerWrite(<<y.v, m.v, d.v>>, TRUE)
        ELSE Legacy(toks, 6, <<y.v, m.v, d.v>>)

AllDigits(s, w) == Len(s) = w /\ \A i \in 1..Len(s) : IsDigit(s[i])

\* the string is a date in the ISO format every engine reads the same way
IsIsoDate(str) ==
    /\ Len(str) = 3
    /\ AllDigits(str[1], 4) /\ AllDigits(str[2], 2) /\ AllDigits(str[3], 2)
    /\ IsMonth(NumVal(str[2]))
    /\ 1 <= NumVal(str[3])
    /\ NumVal(str[3]) <= MonthStart(NumVal(str[2]), InLeapYear(NumVal(str[1])))
                            - MonthStart(NumVal(str[2]) - 1, InLeapYear(NumVal(str[1])))

\* new Date(isoString): the Dates the host may produce
DateParse(str) ==
    IF IsIsoDate(str) THEN {DateParseEngine(str)}
    ELSE {DateParseEngine(str), NaNDate}

(***************************************************************************)
(* parseDateString and areDatesValid                                       *)
(***************************************************************************)
isoString(dateStr, format) ==
    LET part(k) == IF k <= Len(dateStr) THEN dateStr[k] ELSE UndefinedStr
        part1 == part(1)
        part2 == part(2)
        part3 == part(3)
    IN  CASE format = "MM-DD-YYYY" -> <<part3, part1, part2>>
          [] format = "MM-DD-YY"   -> <<<<2, 0>> \o part3, part1, part2>>
          [] format = "DD-MM-YYYY" -> <<part3, part2, part1>>
          [] format = "DD-MM-YY"   -> <<<<2, 0>> \o part3, part2, part1>>
          [] OTHER                 -> <<part1, part2, part3>>

\* the results the call may give
parseDateString(dateStr, format) ==
    IF format \notin Formats THEN {RetError("UnsupportedFormat")}
    ELSE {IF date.nan THEN RetError("InvalidDate") ELSE RetDate(date) :
              date \in DateParse(isoString(dateStr, format))}

areDatesValid(startDate, endDate, format) ==
    UNION {IF start.kind = "error" THEN {start}
           ELSE {IF end.kind = "error" THEN end ELSE RetCompare(start.D, end.D) :
                     end \in parseDateString(endDate, format)} :
               start \in parseDateString(startDate, format)}

(***************************************************************************)
(* Callers of the format engine                                            *)
(***************************************************************************)
IsShortYear(format) == format \in {"MM-DD-YY", "DD-MM-YY"}

Layout(format, dd, mm, yy) ==
    CASE format \in {"MM-DD-YYYY", "MM-DD-YY"} -> <<mm, dd, yy>>
      [] format \in {"DD-MM-YYYY", "DD-MM-YY"} -> <<dd, mm, yy>>
      [] OTHER -> <<yy, mm, dd>>

Word == <<Letter>>
DaySegs == {RefTwo(v) : v \in {0, 1, 2, 28, 29, 30, 31, 32}} \cup {<<1>>, <<5>>, Word}
MonthSegs == {RefTwo(v) : v \in ArgMonths} \cup {<<2>>, <<4>>, Word}
YearSegs(format) ==
    {IF IsShortYear(format) THEN RefTwo(y) ELSE RefFour(y) : y \in Years} \cup {Word}

\* texts of three parts, of two parts, and of four parts
ParseTexts(format) ==
    LET three == {Layout(format, dd, mm, yy) :
                     dd \in DaySegs, mm \in MonthSegs, yy \in YearSegs(format)}
    IN  three \cup {SubSeq(t, 1, 2) : t \in three} \cup {Append(t, <<9, 9>>) : t \in three}

CmpTexts(format) ==
    {Layout(format, dd, mm, IF IsShortYear(format) THEN RefTwo(y) ELSE RefFour(y)) :
        dd \in {<<0, 1>>, <<1>>, <<0, 2>>, <<3, 1>>},
        mm \in {<<0, 1>>, <<0, 2>>, <<2>>, <<1, 3>>},
        y \in CmpYears}

InitFmt ==
    /\ tz \in TzOffsets
    /\ clock = FixedClock
    /\ inp = NoInput
    /\ op = "idle"
    /\ ret = RetNone

\* render a calendar-valid date
FormatDate ==
    /\ op = "idle"
    /\ \E c \in ValidDates, format \in Formats :
        /\ op' = "formatDate"
        /\ inp' = [NoInput EXCEPT !.day = c.day, !.month = c.month, !.year = c.year,
                                  !.format = format]
        /\ ret' = formatDate(NewDateYMD(c.year, c.month - 1, c.day), format)
        /\ UNCHANGED <<tz, clock>>

\* parse the rendered string back under the same format
ParseRendered ==
    /\ op = "formatDate"
    /\ ret.kind = "string"
    /\ op' = "parseRendered"
    /\ inp' = [inp EXCEPT !.text = ret.text]
    /\ ret' \in parseDateString(ret.text, inp.format)
    /\ UNCHANGED <<tz, clock>>

NextRound == FormatDate \/ ParseRendered \/ Return

SpecRound == InitFmt /\ [][NextRound]_vars

ParseDateString ==
    /\ op = "idle"
    /\ \E format \in Formats :
        \E text \in ParseTexts(format) :
            /\ op' = "parseDateString"
            /\ inp' = [NoInput EXCEPT !.text = text, !.format = format]
            /\ ret' \in parseDateString(text, format)
            /\ UNCHANGED <<tz, clock>>

NextParse == ParseDateString \/ Return

SpecParse == InitFmt /\ [][NextParse]_vars

AreDatesValid ==
    /\ op = "idle"
    /\ \E format \in Formats :
        \E startDate \in CmpTexts(format), endDate \in CmpTexts(format) :
            /\ op' = "areDatesValid"
            /\ inp' = [NoInput EXCEPT !.text = startDate, !.text2 = endDate,
                                      !.format = format]
            /\ ret' \in areDatesValid(startDate, endDate, format)
            /\ UNCHANGED <<tz, clock>>

NextCmp == AreDatesValid \/ Return

SpecCmp == InitFmt /\ [][NextCmp]_vars

(***************************************************************************)
(* Calendar properties                                                     *)
(***************************************************************************)

C4_InvalidComponentsRejected ==
    (op = "getAnyDate" /\ ~RefValid(inp.day, inp.month, inp.year)) =>
        ret.kind = "error"

C6_MonthOutOfRangeRejected ==
    (op = "getDaysInMonth" /\ inp.month \notin 1..12) =>
        ret.kind = "error"

(***************************************************************************)
(* Properties of the functions of the current date                         *)
(***************************************************************************)

\* C8: the financial year starts in the current year when the current month
\* is April or later and in the year before otherwise, and ends one year
\* later; the short form is the last two digits of both years and the full
\* form the four-digit start year and the last two digits of the end year.
C8_FinancialYear ==
    (op = "getFinancialYear") =>
        LET SY == IF clock.month >= 4 THEN clock.year ELSE clock.year - 1
            EY == SY + 1
        IN  /\ ret.kind = "string"
            /\ ret.text = IF inp.flag THEN <<RefFour(SY), RefTwo(EY)>>
                                      ELSE <<RefTwo(SY), RefTwo(EY)>>

C8_Witness ==
    /\ op = "getFinancialYear"
    /\ clock.year = 2000 /\ clock.month = 3 /\ ~inp.flag
    /\ ret.text = <<<<9, 9>>, <<0, 0>>>>

\* C9: the current quarter is floor((m-1)/3)+1; the quarter starts on day 1
\* of month 3(q-1)+1 and ends on the last day of month 3q of the current
\* year, and the current date lies between the two.
C9_QuarterBounds ==
    LET q == CASE clock.month \in 1..3 -> 1
               [] clock.month \in 4..6 -> 2
               [] clock.month \in 7..9 -> 3
               [] OTHER -> 4
        today == YMD(clock.year, clock.month, clock.day)
        first == YMD(clock.year, 3 * (q - 1) + 1, 1)
        last  == YMD(clock.year, 3 * q, RefDaysInMonth(clock.year, 3 * q))
    IN  /\ (op = "getCurrentQuarter") => (ret.kind = "number" /\ ret.num = q)
        /\ (op = "getQuarterStartDate") =>
              /\ ret.kind = "string"
              /\ ret.text = RefRender(first, inp.format)
              /\ LocalYMD(ret.D) = first
              /\ ~RefBefore(today, first)
        /\ (op = "getQuarterEndDate") =>
              /\ ret.kind = "string"
              /\ ret.text = RefRender(last, inp.format)
              /\ LocalYMD(ret.D) = last
              /\ ~RefBefore(last, today)

C9_Witness ==
    /\ op = "getQuarterEndDate"
    /\ clock.year = 2024 /\ clock.month = 12 /\ clock.day = 31 /\ clock.hour = 23
    /\ inp.format = "YYYY-MM-DD"
    /\ ret.text = <<<<2, 0, 2, 4>>, <<1, 2>>, <<3, 1>>>>

(***************************************************************************)
(* Properties of the format engine                                         *)
(***************************************************************************)
IsNumeric(seg) == Len(seg) > 0 /\ \A i \in 1..Len(seg) : IsDigit(seg[i])

\* the components a three-part numeric text denotes under a format
TextYMD(text, format) ==
    LET yv == IF format = "YYYY-MM-DD" THEN NumVal(text[1]) ELSE NumVal(text[3])
        y  == IF IsShortYear(format) THEN 2000 + yv ELSE yv
    IN  CASE format \in {"MM-DD-YYYY", "MM-DD-YY"} ->
                YMD(y, NumVal(text[1]), NumVal(text[2]))
          [] format \in {"DD-MM-YYYY", "DD-MM-YY"} ->
                YMD(y, NumVal(text[2]), NumVal(text[1]))
          [] OTHER -> YMD(y, NumVal(text[2]), NumVal(text[3]))

ThreeNumeric(text) == Len(text) = 3 /\ \A k \in 1..3 : IsNumeric(text[k])

\* C1: parsing the rendering of a calendar-valid date under the same format
\* gives the date back, except for a two-digit-year format and a year
\* outside 2000..2099.
C1_RoundTrip ==
    (op = "parseRendered" /\ ~(IsShortYear(inp.format) /\ inp.year \notin 2000..2099)) =>
        /\ ret.kind = "date"
        /\ LocalYMD(ret.D) = YMD(inp.year, inp.month, inp.day)

\* C2: parse fails whenever the three numeric parts of the text, assigned to
\* day, month and year by the format, are not a calendar-valid date.
C2_InvalidDateRejected ==
    (op = "parseDateString" /\ ThreeNumeric(inp.text)
        /\ LET c == TextYMD(inp.text, inp.format)
           IN  ~RefValid(c.day, c.month, c.year)) =>
        ret.kind = "error"

\* C7: parse fails whenever the text does not split into exactly three parts
\* or one of the parts is not numeric.
C7_MalformedRejected ==
    (op = "parseDateString" /\ ~ThreeNumeric(inp.text)) => ret.kind = "error"

\* C10: when both strings parse, the answer is true exactly when the start
\* date is strictly before the end date in the order by (year, month, day);
\* when a string does not parse the failure is raised.
C10_IsBefore ==
    (op = "areDatesValid") =>
        /\ ret.kind \in {"boolean", "error"}
        /\ ret.kind = "boolean" =>
              /\ ~ret.D.nan /\ ~ret.D2.nan
              /\ ret.flag = RefBefore(TextYMD(inp.text, inp.format),
                                      TextYMD(inp.text2, inp.format))

====
